---- MODULE Spec2Model ----
(***************************************************************************)
(* Model of launch_device_viewer.py: the SNMP transport helpers            *)
(* (snmp_get, snmp_walk), the scanner (scan_device), the scan and view     *)
(* routes and the grouping / truncation done by INVENTORY_TEMPLATE.        *)
(*                                                                         *)
(* Representation.                                                         *)
(*  - A Python str that the program parses with int() (a row index, a      *)
(*    class code) is a sequence of one-character strings: "10" is          *)
(*    <<"1","0">>.  Other str values are TLA+ strings.                     *)
(*  - An optional value (None or a value) is <<>> or <<v>>.                *)
(*  - A dict is the sequence of its <<key, value>> pairs in insertion      *)
(*    order, keys unique.                                                  *)
(***************************************************************************)
EXTENDS Integers, Sequences, FiniteSets, TLC

VARIABLES
    pc,            \* position of the running scan_device call
    caller,        \* <<device_id>> when scan_device_route made the call
    sys_name,      \* scan_device local
    sys_descr,     \* scan_device local
    sys_uptime,    \* scan_device local
    entity_data,   \* scan_device local: table name -> dict
    outcome,       \* value returned by scan_device: [result, error]
    exchanges,     \* the fetches issued by the running scan, in order
    devices,       \* Device table: id -> row
    inventories,   \* Inventory table: rows in insertion order
    now,           \* datetime.utcnow()
    returned,      \* item lists returned by the scans that were stored
    page,          \* what view_inventory rendered last
    answer,        \* what nextCmd answers to a call of snmp_walk on its own
    walked         \* <<dict>> once that call has returned

vars == <<pc, caller, sys_name, sys_descr, sys_uptime, entity_data, outcome,
          exchanges, devices, inventories, now, returned, page, answer, walked>>

walkVars == <<answer, walked>>

scanVars == <<pc, caller, sys_name, sys_descr, sys_uptime, entity_data,
              outcome, exchanges>>

dbVars == <<devices, inventories, now, returned>>

(***************************************************************************)
(* Bounds of the model.                                                    *)
(***************************************************************************)
MaxRows == 2       \* rows a walk of entPhysicalDescr / entPhysicalClass yields
MaxClock == 2      \* scan requests served
MaxPorts == 12     \* ports of a stored list given to the inventory view
MaxYields == 3     \* exchanges nextCmd yields to a walk on its own

(***************************************************************************)
(* Python values.                                                          *)
(***************************************************************************)
None == <<>>

Some(v) == <<v>>

\* Python truthiness of an optional str: None and "" are falsy.
Truthy(o) == o # None /\ o[1] # ""

Digits == <<"0", "1", "2", "3", "4", "5", "6", "7", "8", "9">>

IsDigit(c) == \E d \in 1..Len(Digits) : Digits[d] = c

DigitVal(c) == (CHOOSE d \in 1..Len(Digits) : Digits[d] = c) - 1

RECURSIVE DecValue(_)
DecValue(s) ==
    IF s = <<>> THEN 0
    ELSE DecValue(SubSeq(s, 1, Len(s) - 1)) * 10 + DigitVal(s[Len(s)])

\* int(s) for a str s: <<n>>, or None when int() raises ValueError.
\* (The inputs of the model hold digits and letters only: no sign, no
\* white space, no underscore.)
ParseInt(s) ==
    IF s # <<>> /\ \A k \in 1..Len(s) : IsDigit(s[k])
    THEN Some(DecValue(s))
    ELSE None

(***************************************************************************)
(* dict operations.                                                        *)
(***************************************************************************)
DictHas(d, k) == \E n \in 1..Len(d) : d[n][1] = k

\* d.get(k, default)
DictGet(d, k, default) ==
    IF DictHas(d, k)
    THEN d[CHOOSE n \in 1..Len(d) : d[n][1] = k][2]
    ELSE default

\* d[k] = v, keeping the position of a key that is already there
DictSet(d, k, v) ==
    IF DictHas(d, k)
    THEN [n \in 1..Len(d) |-> IF d[n][1] = k THEN <<k, v>> ELSE d[n]]
    ELSE Append(d, <<k, v>>)

\* list(d.keys())
DictKeys(d) == [n \in 1..Len(d) |-> d[n][1]]

(***************************************************************************)
(* Registry.                                                               *)
(***************************************************************************)
\* the keys of ENTITY_MIB_OIDS in the order .items() yields them
ENTITY_MIB_OIDS ==
    <<"entPhysicalDescr", "entPhysicalClass", "entPhysicalName",
      "entPhysicalSerialNum", "entPhysicalModelName">>

\* the keys of SYSTEM_MIB_OIDS
SYSTEM_MIB_OIDS == {"sysDescr", "sysName", "sysUpTime"}

PHYSICAL_CLASS ==
    <<"other", "unknown", "chassis", "backplane", "container", "powerSupply",
      "fan", "sensor", "module", "port", "stack", "cpu">>

(***************************************************************************)
(* Transport client.                                                       *)
(*                                                                         *)
(* One exchange of getCmd / nextCmd answers with                           *)
(*   [errorIndication, errorStatus, varBinds]                              *)
(* where varBinds is a sequence of <<name, value>>: name is str(varBind[0])*)
(* as the sequence of its dotted components, value is str(varBind[1]).     *)
(* A response to snmp_get is one exchange, or the transport raising.  A    *)
(* response to snmp_walk is the sequence of exchanges the nextCmd iterator *)
(* yields, and whether the iterator raises once they are consumed.         *)
(***************************************************************************)
snmp_get(resp) ==
    IF resp.raises THEN None
    ELSE IF resp.errorIndication \/ resp.errorStatus THEN None
    ELSE IF resp.varBinds = <<>> THEN None
    ELSE Some(resp.varBinds[1][2])

\* str(varBind[0]).split('.')[-1]
RowIndex(name) == name[Len(name)]

\* results[index] = str(varBind[1]) for every varBind of one exchange
RECURSIVE StoreVarBinds(_, _)
StoreVarBinds(results, varBinds) ==
    IF varBinds = <<>> THEN results
    ELSE StoreVarBinds(DictSet(results, RowIndex(varBinds[1][1]), varBinds[1][2]),
                       Tail(varBinds))

\* the exchange at which the loop breaks, 0 when it never does
FirstError(yields) ==
    IF \E n \in 1..Len(yields) : yields[n].errorIndication \/ yields[n].errorStatus
    THEN CHOOSE n \in 1..Len(yields) :
            /\ yields[n].errorIndication \/ yields[n].errorStatus
            /\ \A m \in 1..(n - 1) :
                  ~(yields[m].errorIndication \/ yields[m].errorStatus)
    ELSE 0

RECURSIVE WalkLoop(_, _)
WalkLoop(results, yields) ==
    IF yields = <<>> THEN results
    ELSE IF yields[1].errorIndication \/ yields[1].errorStatus THEN results
    ELSE WalkLoop(StoreVarBinds(results, yields[1].varBinds), Tail(yields))

\* The iterator raises only when the loop asks for an exchange past the
\* last one it yields, which a break prevents.
snmp_walk(resp) ==
    IF resp.raises /\ FirstError(resp.yields) = 0
    THEN <<>>
    ELSE WalkLoop(<<>>, resp.yields)

(***************************************************************************)
(* Scanner.                                                                *)
(***************************************************************************)
\* entity_data.get(key, {})
EntityGet(ed, key) == IF key \in DOMAIN ed THEN ed[key] ELSE <<>>

\* PHYSICAL_CLASS.get(int(phys_class_num), 'unknown') inside try / except
PhysClass(phys_class_num) ==
    LET n == ParseInt(phys_class_num)
    IN  IF n = None THEN "unknown"
        ELSE IF n[1] \in DOMAIN PHYSICAL_CLASS THEN PHYSICAL_CLASS[n[1]]
        ELSE "unknown"

\* entity_data.get('entPhysicalClass', {}).get(index, '2')
ClassCode(ed, index) == DictGet(EntityGet(ed, "entPhysicalClass"), index, <<"2">>)

\* phys_class not in ['sensor', 'unknown', 'other']
RetainedButSensor(phys_class) == phys_class # "sensor"

Retained(phys_class) == phys_class \notin {"sensor", "unknown", "other"}

\* the dict appended for one retained index
ItemOfBlank(ed, index) ==
    [index         |-> index,
     name          |-> DictGet(EntityGet(ed, "entPhysicalName"), index, ""),
     description   |-> DictGet(EntityGet(ed, "entPhysicalDescr"), index, ""),
     class         |-> PhysClass(ClassCode(ed, index)),
     serial_number |-> DictGet(EntityGet(ed, "entPhysicalSerialNum"), index, ""),
     model         |-> DictGet(EntityGet(ed, "entPhysicalModelName"), index, "")]

ItemOf(ed, index) ==
    [index         |-> index,
     name          |-> DictGet(EntityGet(ed, "entPhysicalName"), index, "N/A"),
     description   |-> DictGet(EntityGet(ed, "entPhysicalDescr"), index, "N/A"),
     class         |-> PhysClass(ClassCode(ed, index)),
     serial_number |-> DictGet(EntityGet(ed, "entPhysicalSerialNum"), index, "N/A"),
     model         |-> DictGet(EntityGet(ed, "entPhysicalModelName"), index, "N/A")]

\* inventory_items before the sort
BuildItemsFromClass(ed) ==
    LET keys == DictKeys(EntityGet(ed, "entPhysicalClass"))
        all  == [n \in 1..Len(keys) |-> ItemOf(ed, keys[n])]
    IN  SelectSeq(all, LAMBDA it : Retained(it.class))

BuildItems(ed) ==
    LET keys == DictKeys(EntityGet(ed, "entPhysicalDescr"))
        all  == [n \in 1..Len(keys) |-> ItemOf(ed, keys[n])]
    IN  SelectSeq(all, LAMBDA it : Retained(it.class))

\* the key of the sort: int(x['index'])
SortKey(item) == ParseInt(item.index)

\* the first item whose key raises, 0 when every key is an integer
FirstBadKey(items) ==
    IF \E n \in 1..Len(items) : SortKey(items[n]) = None
    THEN CHOOSE n \in 1..Len(items) :
            /\ SortKey(items[n]) = None
            /\ \A m \in 1..(n - 1) : SortKey(items[m]) # None
    ELSE 0

\* insert x behind every element whose key is not greater (stable)
RECURSIVE InsertSorted(_, _)
InsertSorted(sorted, x) ==
    IF sorted = <<>> THEN <<x>>
    ELSE IF SortKey(sorted[Len(sorted)])[1] <= SortKey(x)[1]
         THEN Append(sorted, x)
         ELSE Append(InsertSorted(SubSeq(sorted, 1, Len(sorted) - 1), x),
                     sorted[Len(sorted)])

Unsorted(items) == items

RECURSIVE SortByIndex(_)
SortByIndex(items) ==
    IF items = <<>> THEN <<>>
    ELSE InsertSorted(SortByIndex(SubSeq(items, 1, Len(items) - 1)),
                      items[Len(items)])

(***************************************************************************)
(* What a call of scan_device ends in: the pair it returns, or an          *)
(* exception leaving it.  A message is [msg, arg]: str(e) of the           *)
(* ValueError of int() names the literal it rejected.                      *)
(***************************************************************************)
Failure(msg, arg) ==
    [result |-> None, error |-> Some([msg |-> msg, arg |-> arg]), raised |-> None]

Success(result) == [result |-> Some(result), error |-> None, raised |-> None]

Raise(msg, arg) ==
    [result |-> None, error |-> None, raised |-> Some([msg |-> msg, arg |-> arg])]

NoOutcome == [result |-> None, error |-> None, raised |-> None]

\* except Exception as e: return None, str(e)
CatchNothing(o) == o

Catch(o) ==
    IF o.raised # None
    THEN [result |-> None, error |-> o.raised, raised |-> None]
    ELSE o

\* if not sys_name: return None, "Unable to connect via SNMP"
GateNever(name) == FALSE

GateFails(name) == ~Truthy(name)

\* inventory_items.sort(key=lambda x: int(x['index'])) and the return
Body(name, descr, uptime, ed) ==
    LET items == BuildItems(ed)
        bad   == FirstBadKey(items)
    IN  IF bad # 0
        THEN Raise("invalid literal for int() with base 10", items[bad].index)
        ELSE Success([hostname           |-> name,
                      system_description |-> descr,
                      uptime             |-> uptime,
                      inventory_items    |-> SortByIndex(items)])

\* the try block from the table walks on, under its except clause
Process(name, descr, uptime, ed) == Catch(Body(name, descr, uptime, ed))

(***************************************************************************)
(* What a device may answer.  The sets are small and hold the cases the    *)
(* scanner distinguishes: a numeric order that differs from the order of   *)
(* arrival and from the order of the strings ("10" before "2"), an index   *)
(* int() rejects, class codes that are kept, dropped, out of range and not *)
(* numeric, and every way a fetch can fail.                                *)
(***************************************************************************)
IndexOrder == << <<"2">>, <<"1", "0">>, <<"x">> >>

Indices == {IndexOrder[n] : n \in 1..Len(IndexOrder)}

AuxIndices == {<<"2">>, <<"1", "0">>}

\* the class codes a device reports for a row: kept, dropped, out of range
\* and not numeric ones
CodesOf(i) ==
    CASE i = <<"2">>      -> {<<"3">>, <<"8">>, <<"1", "3">>, <<"x">>}
      [] i = <<"1", "0">> -> {<<"1", "0">>, <<"6">>, <<"1">>, <<"0">>}
      [] i = <<"x">>      -> {<<"9">>, <<"1", "2">>, <<"2">>, <<>>}

\* str(varBind[0]) of the row i of a table, as its dotted components
VarBindName(i) == << <<"4", "7">>, <<"1">>, i >>

Row(i, v) == <<VarBindName(i), v>>

Yield(row) == [errorIndication |-> FALSE, errorStatus |-> FALSE, varBinds |-> <<row>>]

ErrorIndication == [errorIndication |-> TRUE, errorStatus |-> FALSE, varBinds |-> <<>>]

ErrorStatus == [errorIndication |-> FALSE, errorStatus |-> TRUE, varBinds |-> <<>>]

SeqsUpTo(S, n) == UNION {[1..k -> S] : k \in 0..n}

Pos(i) == CHOOSE n \in 1..Len(IndexOrder) : IndexOrder[n] = i

\* rows in the order of IndexOrder, no index twice
InOrder(rows) ==
    \A a, b \in 1..Len(rows) :
        a < b => Pos(RowIndex(rows[a][1])) < Pos(RowIndex(rows[b][1]))

\* the ways a walk that received `rows` can end
WalkResponses(rowSeqs) ==
    LET Y(rows) == [n \in 1..Len(rows) |-> Yield(rows[n])]
    IN  UNION {
          { [yields |-> Y(rows), raises |-> FALSE],
            [yields |-> Y(rows) \o <<ErrorIndication>>, raises |-> FALSE],
            [yields |-> Y(rows) \o <<ErrorStatus>>, raises |-> FALSE],
            [yields |-> Y(rows), raises |-> TRUE] } : rows \in rowSeqs }

\* the ways one scalar fetch can end
GetResponses(values) ==
    { [raises |-> FALSE, errorIndication |-> FALSE, errorStatus |-> FALSE,
       varBinds |-> <<Row(<<"0">>, v)>>] : v \in values }
    \cup
    { [raises |-> FALSE, errorIndication |-> FALSE, errorStatus |-> FALSE,
       varBinds |-> <<>>],
      [raises |-> FALSE, errorIndication |-> TRUE, errorStatus |-> FALSE,
       varBinds |-> <<>>],
      [raises |-> FALSE, errorIndication |-> FALSE, errorStatus |-> TRUE,
       varBinds |-> <<>>],
      [raises |-> TRUE, errorIndication |-> FALSE, errorStatus |-> FALSE,
       varBinds |-> <<>>] }

LabDescrRows == SeqsUpTo({Row(i, "Descr") : i \in Indices}, MaxRows)

LabClassRows ==
    {rows \in SeqsUpTo(UNION {{Row(i, c) : c \in CodesOf(i)} : i \in Indices},
                        MaxRows) : InOrder(rows)}

\* the name, serial and model tables hold no row or one
LabAuxRows(v) == {<<>>} \cup {<<Row(i, v)>> : i \in AuxIndices}

\* the target of a direct call of scan_device
LabScalar(oid) ==
    CASE oid = "sysName"   -> GetResponses({"SW1", ""})
      [] oid = "sysDescr"  -> GetResponses({"IOS"})
      [] oid = "sysUpTime" -> GetResponses({"4711"})

LabTable(key) ==
    CASE key = "entPhysicalDescr"     -> WalkResponses(LabDescrRows)
      [] key = "entPhysicalClass"     -> WalkResponses(LabClassRows)
      [] key = "entPhysicalName"      -> WalkResponses(LabAuxRows("Name"))
      [] key = "entPhysicalSerialNum" -> WalkResponses(LabAuxRows("Serial"))
      [] key = "entPhysicalModelName" -> WalkResponses(LabAuxRows("Model"))

(***************************************************************************)
(* The devices of the Device table answer as one of two switches, or not   *)
(* at all: a small one (a chassis and a port) and a big one (a chassis and *)
(* eleven ports, one more than the inventory view shows).                  *)
(***************************************************************************)
RECURSIVE ToDigits(_)
ToDigits(n) ==
    IF n < 10 THEN <<Digits[n + 1]>>
    ELSE Append(ToDigits(n \div 10), Digits[(n % 10) + 1])

SmallSwitch == 2

BigSwitch == 12

SwitchRows(n, v) == [k \in 1..n |-> Row(ToDigits(k), v)]

SwitchClassRows(n) ==
    [k \in 1..n |-> Row(ToDigits(k), IF k = 1 THEN <<"3">> ELSE <<"1", "0">>)]

OkResponse(v) ==
    [raises |-> FALSE, errorIndication |-> FALSE, errorStatus |-> FALSE,
     varBinds |-> <<Row(<<"0">>, v)>>]

FieldScalar(oid) ==
    CASE oid = "sysName"   -> GetResponses({"SW1"})
      [] oid = "sysDescr"  -> GetResponses({"IOS"})
      [] oid = "sysUpTime" -> {OkResponse("4711")}

FieldTable(key) ==
    CASE key = "entPhysicalDescr" ->
            WalkResponses({SwitchRows(SmallSwitch, "Descr"), SwitchRows(BigSwitch, "Descr")})
      [] key = "entPhysicalClass" ->
            {[yields |-> [k \in 1..BigSwitch |-> Yield(SwitchClassRows(BigSwitch)[k])],
              raises |-> FALSE]}
      [] key = "entPhysicalName" ->
            {[yields |-> [k \in 1..BigSwitch |-> Yield(SwitchRows(BigSwitch, "Name")[k])],
              raises |-> FALSE]}
      [] key = "entPhysicalSerialNum" -> {[yields |-> <<>>, raises |-> TRUE]}
      [] key = "entPhysicalModelName" -> {[yields |-> <<ErrorStatus>>, raises |-> FALSE]}

\* what the target of the running scan may answer
ScalarResponses(oid) == IF caller = None THEN LabScalar(oid) ELSE FieldScalar(oid)

TableResponses(key) == IF caller = None THEN LabTable(key) ELSE FieldTable(key)

(***************************************************************************)
(* scan_device, one action per fetch.                                      *)
(***************************************************************************)
Init ==
    /\ pc = "idle"
    /\ caller = None
    /\ sys_name = None
    /\ sys_descr = None
    /\ sys_uptime = None
    /\ entity_data = <<>>
    /\ outcome = NoOutcome
    /\ exchanges = <<>>
    /\ devices = <<>>
    /\ inventories = <<>>
    /\ now = 0
    /\ returned = <<>>
    /\ page = None
    /\ answer = [yields |-> <<>>, raises |-> FALSE]
    /\ walked = None

\* the frame of a call of scan_device
Enter(c) ==
    /\ pc' = "sysName"
    /\ caller' = c
    /\ sys_name' = None
    /\ sys_descr' = None
    /\ sys_uptime' = None
    /\ entity_data' = <<>>
    /\ outcome' = NoOutcome
    /\ exchanges' = <<>>

\* scan_device called on a target directly
scan_device ==
    /\ pc \in {"idle", "done"}
    /\ caller = None
    /\ Enter(None)
    /\ UNCHANGED <<dbVars, page>>
    /\ UNCHANGED walkVars

get_sysName ==
    /\ pc = "sysName"
    /\ \E resp \in ScalarResponses("sysName") : sys_name' = snmp_get(resp)
    /\ exchanges' = Append(exchanges, "sysName")
    /\ pc' = "sysDescr"
    /\ UNCHANGED <<caller, sys_descr, sys_uptime, entity_data, outcome, dbVars, page>>
    /\ UNCHANGED walkVars

get_sysDescr ==
    /\ pc = "sysDescr"
    /\ \E resp \in ScalarResponses("sysDescr") : sys_descr' = snmp_get(resp)
    /\ exchanges' = Append(exchanges, "sysDescr")
    /\ pc' = "sysUpTime"
    /\ UNCHANGED <<caller, sys_name, sys_uptime, entity_data, outcome, dbVars, page>>
    /\ UNCHANGED walkVars

get_sysUpTime ==
    /\ pc = "sysUpTime"
    /\ \E resp \in ScalarResponses("sysUpTime") : sys_uptime' = snmp_get(resp)
    /\ exchanges' = Append(exchanges, "sysUpTime")
    /\ pc' = "gate"
    /\ UNCHANGED <<caller, sys_name, sys_descr, entity_data, outcome, dbVars, page>>
    /\ UNCHANGED walkVars

gate_partial ==
    /\ pc = "gate"
    /\ IF GateFails(sys_name)
       THEN /\ outcome' = Success([hostname           |-> sys_name,
                                   system_description |-> sys_descr,
                                   uptime             |-> sys_uptime,
                                   inventory_items    |-> <<>>])
            /\ pc' = "done"
       ELSE /\ outcome' = outcome
            /\ pc' = "walk"
    /\ UNCHANGED <<caller, sys_name, sys_descr, sys_uptime, entity_data,
                   exchanges, dbVars, page>>
    /\ UNCHANGED walkVars

gate ==
    /\ pc = "gate"
    /\ IF GateFails(sys_name)
       THEN /\ outcome' = Failure("Unable to connect via SNMP", <<>>)
            /\ pc' = "done"
       ELSE /\ outcome' = outcome
            /\ pc' = "walk"
    /\ UNCHANGED <<caller, sys_name, sys_descr, sys_uptime, entity_data,
                   exchanges, dbVars, page>>
    /\ UNCHANGED walkVars

\* one turn of the loop over ENTITY_MIB_OIDS.items()
walk ==
    /\ pc = "walk"
    /\ LET key == ENTITY_MIB_OIDS[Cardinality(DOMAIN entity_data) + 1]
       IN  /\ \E resp \in TableResponses(key) :
                 entity_data' = (key :> snmp_walk(resp)) @@ entity_data
           /\ exchanges' = Append(exchanges, key)
           /\ pc' = IF Cardinality(DOMAIN entity_data) + 1 = Len(ENTITY_MIB_OIDS)
                    THEN "process" ELSE "walk"
    /\ UNCHANGED <<caller, sys_name, sys_descr, sys_uptime, outcome, dbVars, page>>
    /\ UNCHANGED walkVars

process ==
    /\ pc = "process"
    /\ outcome' = Process(sys_name, sys_descr, sys_uptime, entity_data)
    /\ pc' = "done"
    /\ UNCHANGED <<caller, sys_name, sys_descr, sys_uptime, entity_data,
                   exchanges, dbVars, page>>
    /\ UNCHANGED walkVars

(***************************************************************************)
(* Persistence and the routes.                                             *)
(***************************************************************************)
DeviceIds == {1, 2}

\* Device.status: 'Not Scanned', 'Success' or f'Failed: {error}'
Status(text, error) == [text |-> text, error |-> error]

\* json.dumps of a list of item dicts: every dict becomes the object of its
\* members, in the order of the keys
ItemKeys == <<"index", "name", "description", "class", "serial_number", "model">>

json_dumps(items) ==
    [n \in 1..Len(items) |->
        [k \in 1..Len(ItemKeys) |-> <<ItemKeys[k], items[n][ItemKeys[k]]>>]]

\* json.loads: every object becomes a dict again
json_loads(text) ==
    [n \in 1..Len(text) |->
        [key \in {text[n][k][1] : k \in 1..Len(text[n])} |->
            DictGet(text[n], key, None)]]

\* the from_json template filter
from_json_filter(value) == IF value = None THEN <<>> ELSE json_loads(value[1])

\* the Inventory row the scan route adds
InventoryKeepsShown(device_id, result, t) ==
    [device_id          |-> device_id,
     hostname           |-> result.hostname,
     system_description |-> result.system_description,
     uptime             |-> result.uptime,
     inventory_data     |->
        Some(json_dumps(SubSeq(result.inventory_items, 1,
                               IF Len(result.inventory_items) < 10
                               THEN Len(result.inventory_items) ELSE 10))),
     scanned_at         |-> t]

Inventory(device_id, result, t) ==
    [device_id          |-> device_id,
     hostname           |-> result.hostname,
     system_description |-> result.system_description,
     uptime             |-> result.uptime,
     inventory_data     |-> Some(json_dumps(result.inventory_items)),
     scanned_at         |-> t]

add_device ==
    /\ pc = "idle"
    /\ \E d \in DeviceIds \ DOMAIN devices :
          /\ \A e \in DOMAIN devices : e < d
          /\ \A e \in DeviceIds : e < d => \E f \in DOMAIN devices : e <= f
          /\ devices' = (d :> [status |-> Status("Not Scanned", None),
                               last_scanned |-> None]) @@ devices
    /\ page' = None
    /\ UNCHANGED <<scanVars, inventories, now, returned>>
    /\ UNCHANGED walkVars

\* scan_device_route up to its call of scan_device
scan_device_route ==
    /\ pc = "idle"
    /\ now < MaxClock
    /\ \E d \in DOMAIN devices : Enter(Some(d))
    /\ page' = None
    /\ UNCHANGED dbVars
    /\ UNCHANGED walkVars

\* scan_device_route from the return of scan_device to the commit.  The clock
\* is read at the commit and has advanced since the commit before it.
save_inventory_stamps_failure ==
    /\ pc = "done"
    /\ caller # None
    /\ now' = now + 1
    /\ IF outcome.result # None
       THEN /\ inventories' =
                   Append(inventories, Inventory(caller[1], outcome.result[1], now'))
            /\ devices' = [devices EXCEPT ![caller[1]] =
                   [status |-> Status("Success", None), last_scanned |-> Some(now')]]
            /\ returned' = Append(returned, outcome.result[1].inventory_items)
       ELSE /\ devices' = [devices EXCEPT ![caller[1]] =
                   [status |-> Status("Failed: ", outcome.error),
                    last_scanned |-> Some(now')]]
            /\ UNCHANGED <<inventories, returned>>
    /\ pc' = "idle"
    /\ caller' = None
    /\ sys_name' = None
    /\ sys_descr' = None
    /\ sys_uptime' = None
    /\ entity_data' = <<>>
    /\ outcome' = NoOutcome
    /\ exchanges' = <<>>
    /\ page' = None
    /\ UNCHANGED walkVars

save_inventory ==
    /\ pc = "done"
    /\ caller # None
    /\ now' = now + 1
    /\ IF outcome.result # None
       THEN /\ inventories' =
                   Append(inventories, Inventory(caller[1], outcome.result[1], now'))
            /\ devices' = [devices EXCEPT ![caller[1]] =
                   [status |-> Status("Success", None), last_scanned |-> Some(now')]]
            /\ returned' = Append(returned, outcome.result[1].inventory_items)
       ELSE /\ devices' = [devices EXCEPT ![caller[1]].status =
                   Status("Failed: ", outcome.error)]
            /\ UNCHANGED <<inventories, returned>>
    /\ pc' = "idle"
    /\ caller' = None
    /\ sys_name' = None
    /\ sys_descr' = None
    /\ sys_uptime' = None
    /\ entity_data' = <<>>
    /\ outcome' = NoOutcome
    /\ exchanges' = <<>>
    /\ page' = None
    /\ UNCHANGED walkVars

\* the positions of the Inventory rows that are not of device d
RowsNotOf(d) == {k \in 1..Len(inventories) : inventories[k].device_id # d}

\* the k-th smallest element of a set of positions
Nth(S, k) == CHOOSE n \in S : Cardinality({m \in S : m < n}) = k - 1

delete_device ==
    /\ pc = "idle"
    /\ \E d \in DOMAIN devices :
          /\ inventories' =
                [k \in 1..Cardinality(RowsNotOf(d)) |-> inventories[Nth(RowsNotOf(d), k)]]
          /\ returned' =
                [k \in 1..Cardinality(RowsNotOf(d)) |-> returned[Nth(RowsNotOf(d), k)]]
          /\ devices' = [e \in DOMAIN devices \ {d} |-> devices[e]]
    /\ page' = None
    /\ UNCHANGED <<scanVars, now, walkVars>>

(***************************************************************************)
(* The inventory view.                                                     *)
(***************************************************************************)
PortLimit == 10

OtherLimit == 999

DisplayOrder == <<"chassis", "module", "powerSupply", "fan", "port">>

\* grouped: class -> the items of the class, in the order of the list
Grouped(items) ==
    [c \in {items[n].class : n \in 1..Len(items)} |->
        SelectSeq(items, LAMBDA it : it.class = c)]

\* list[:limit]
Slice(list, limit) == SubSeq(list, 1, IF Len(list) < limit THEN Len(list) ELSE limit)

\* one card of the page: the items shown and the "... and N more ports" line
Section(class_name, group) ==
    [class_name |-> class_name,
     shown      |-> Slice(group, IF class_name = "port" THEN PortLimit ELSE OtherLimit),
     more       |-> IF class_name = "port" /\ Len(group) > PortLimit
                    THEN Some(Len(group) - PortLimit)
                    ELSE None]

\* the cards of INVENTORY_TEMPLATE for inventory.inventory_data
Render(inventory_data) ==
    LET grouped == Grouped(from_json_filter(inventory_data))
        shown   == SelectSeq(DisplayOrder, LAMBDA c : c \in DOMAIN grouped)
    IN  [k \in 1..Len(shown) |-> Section(shown[k], grouped[shown[k]])]

\* Inventory.query.filter_by(device_id=d).order_by(scanned_at.desc()).first():
\* the positions in the table of the rows that may come first
Latest(d) ==
    {k \in 1..Len(inventories) :
        /\ inventories[k].device_id = d
        /\ \A j \in 1..Len(inventories) :
              inventories[j].device_id = d =>
                 inventories[j].scanned_at <= inventories[k].scanned_at}

view_inventory ==
    /\ pc = "idle"
    /\ \E d \in DOMAIN devices :
          IF Latest(d) = {}
          THEN page' = Some([device |-> d, inventory |-> None, sections |-> <<>>])
          ELSE \E k \in Latest(d) :
                  page' = Some([device    |-> d,
                                inventory |-> Some(k),
                                sections  |-> Render(inventories[k].inventory_data)])
    /\ UNCHANGED <<scanVars, dbVars>>
    /\ UNCHANGED walkVars

Next ==
    \/ scan_device
    \/ get_sysName
    \/ get_sysDescr
    \/ get_sysUpTime
    \/ gate
    \/ walk
    \/ process

Spec == Init /\ [][Next]_vars

(***************************************************************************)
(* The web application: devices are added, scanned and viewed, one         *)
(* request at a time.                                                      *)
(***************************************************************************)
NextRoute ==
    \/ add_device
    \/ scan_device_route
    \/ get_sysName
    \/ get_sysDescr
    \/ get_sysUpTime
    \/ gate
    \/ walk
    \/ process
    \/ save_inventory
    \/ view_inventory
    \/ delete_device

SpecRoute == Init /\ [][NextRoute]_vars

(***************************************************************************)
(* The inventory view alone, on the item lists a scan can have stored:     *)
(* sorted by index, n items of one class and then p ports.                 *)
(***************************************************************************)
StoredItem(k, class) ==
    [index         |-> ToDigits(k),
     name          |-> "N/A",
     description   |-> "Descr",
     class         |-> class,
     serial_number |-> "N/A",
     model         |-> "N/A"]

StoredList(class, n, p) ==
    [k \in 1..(n + p) |-> StoredItem(k, IF k <= n THEN class ELSE "port")]

StoredCounts == {0, 1, PortLimit + 1, OtherLimit - 1, OtherLimit, OtherLimit + 1}

StoredLists ==
    {StoredList(class, n, p) :
        class \in {"chassis", "module", "powerSupply", "fan", "stack"},
        n \in StoredCounts, p \in 0..MaxPorts}

InitView ==
    /\ pc = "idle"
    /\ caller = None
    /\ sys_name = None
    /\ sys_descr = None
    /\ sys_uptime = None
    /\ entity_data = <<>>
    /\ outcome = NoOutcome
    /\ exchanges = <<>>
    /\ now = 1
    /\ devices = (1 :> [status |-> Status("Success", None), last_scanned |-> Some(1)])
    /\ \E items \in StoredLists :
          /\ inventories =
                <<Inventory(1, [hostname |-> Some("SW1"),
                                system_description |-> Some("IOS"),
                                uptime |-> Some("4711"),
                                inventory_items |-> items], 1)>>
          /\ returned = <<items>>
    /\ page = None
    /\ answer = [yields |-> <<>>, raises |-> FALSE]
    /\ walked = None

NextView == view_inventory

SpecView == InitView /\ [][NextView]_vars

(***************************************************************************)
(* snmp_walk alone, on every sequence of at most MaxYields exchanges: each *)
(* a row or an error, rows that repeat an index included, the iterator     *)
(* raising or not once they are consumed.                                  *)
(***************************************************************************)
WalkYields ==
    {Yield(Row(i, v)) : i \in Indices, v \in {"Descr", "Other"}}
    \cup {ErrorIndication, ErrorStatus}

WalkAnswers ==
    {[yields |-> y, raises |-> r] : y \in SeqsUpTo(WalkYields, MaxYields), r \in BOOLEAN}

InitWalk ==
    /\ pc = "idle"
    /\ caller = None
    /\ sys_name = None
    /\ sys_descr = None
    /\ sys_uptime = None
    /\ entity_data = <<>>
    /\ outcome = NoOutcome
    /\ exchanges = <<>>
    /\ devices = <<>>
    /\ inventories = <<>>
    /\ now = 0
    /\ returned = <<>>
    /\ page = None
    /\ answer \in WalkAnswers
    /\ walked = None

call_snmp_walk ==
    /\ walked = None
    /\ walked' = Some(snmp_walk(answer))
    /\ UNCHANGED <<scanVars, dbVars, page, answer>>

NextWalk == call_snmp_walk

SpecWalk == InitWalk /\ [][NextWalk]_vars

(***************************************************************************)
(* Properties of scan_device.                                              *)
(***************************************************************************)
Done == pc = "done"

Succeeded == Done /\ outcome.result # None

Items == outcome.result[1].inventory_items

DescrTable == EntityGet(entity_data, "entPhysicalDescr")

ClassTable == EntityGet(entity_data, "entPhysicalClass")

DescrIndices == {DescrTable[n][1] : n \in 1..Len(DescrTable)}

RetainedClasses ==
    {"chassis", "backplane", "container", "powerSupply", "fan", "module",
     "port", "stack", "cpu"}

\* C1: a scan whose sysName fetch returned None returns (None, reason): no
\* result, so no item list, hostname, description or uptime, whatever
\* sysDescr and sysUpTime returned.
C1_AbsentNameIsFailure ==
    (Done /\ sys_name = None) =>
        /\ outcome.result = None
        /\ outcome.error # None
        /\ outcome.raised = None

C1_Witness ==
    /\ Done
    /\ sys_name = None
    /\ sys_descr # None
    /\ sys_uptime # None
    /\ outcome.error # None

\* C2: the items of a successful scan are in ascending order of int(index)
\* and no two of them have the same index.
C2_SortedUnique ==
    Succeeded =>
        /\ \A n \in 1..(Len(Items) - 1) :
              ParseInt(Items[n].index)[1] <= ParseInt(Items[n + 1].index)[1]
        /\ \A m, n \in 1..Len(Items) : m # n => Items[m].index # Items[n].index

C2_Witness ==
    /\ Succeeded
    /\ DictKeys(DescrTable) = << <<"1", "0">>, <<"2">> >>
    /\ Len(Items) = 2
    /\ Items[1].index = <<"2">>

\* C3: no item of a successful scan has class sensor, unknown or other,
\* whatever the descriptor and class tables hold.
C3_NoNoiseClass ==
    Succeeded =>
        \A n \in 1..Len(Items) : Items[n].class \notin {"sensor", "unknown", "other"}

C3_Witness ==
    /\ Succeeded
    /\ Len(Items) = 1
    /\ Len(DescrTable) = 2
    /\ \E i \in DescrIndices :
          /\ DictGet(ClassTable, i, <<"2">>) \in {<<"8">>, <<"x">>, <<"1", "3">>, <<"1">>}
          /\ \A n \in 1..Len(Items) : Items[n].index # i

\* C4: a call of scan_device ends in exactly one of (result, None) and
\* (None, reason), no exception leaves it, and the ValueError of an index
\* int() rejects at the sort becomes the reason.
C4_NeverRaises ==
    Done =>
        /\ outcome.raised = None
        /\ (outcome.result # None) # (outcome.error # None)
        /\ LET built == BuildItems(entity_data)
               bad   == FirstBadKey(built)
           IN  (~GateFails(sys_name) /\ bad # 0) =>
                  outcome.error = Some([msg |-> "invalid literal for int() with base 10",
                                        arg |-> built[bad].index])

C4_Witness ==
    /\ Done
    /\ outcome.result = None
    /\ outcome.error = Some([msg |-> "invalid literal for int() with base 10",
                             arg |-> <<"x">>])

\* C7 as claimed: when the sysName fetch returns None, sysName is the only
\* exchange of the scan.
C7_OnlyNameExchanged ==
    (Done /\ sys_name = None) => exchanges = <<"sysName">>

\* C7 as amended: sysName is the first exchange of a scan; when it returns
\* None the scan issues the sysDescr and sysUpTime fetches, then returns
\* Failure without walking any table.
C7_NoWalkAfterAbsentName ==
    /\ exchanges # <<>> => exchanges[1] = "sysName"
    /\ (Done /\ sys_name = None) =>
          /\ exchanges = <<"sysName", "sysDescr", "sysUpTime">>
          /\ outcome.result = None

C7_Witness ==
    /\ Done
    /\ sys_name = None
    /\ exchanges = <<"sysName", "sysDescr", "sysUpTime">>
    /\ outcome.result = None

\* C8: name, description, serial number and model of every item are the
\* value the item's index has in the field's table, or "N/A" when the table
\* has no such index; each is a str.
FieldOk(table, item, value) ==
    /\ value \in STRING
    /\ IF DictHas(table, item.index)
       THEN \E n \in 1..Len(table) : table[n] = <<item.index, value>>
       ELSE value = "N/A"

C8_FieldOrPlaceholder ==
    Succeeded =>
        \A n \in 1..Len(Items) :
            /\ FieldOk(EntityGet(entity_data, "entPhysicalName"), Items[n], Items[n].name)
            /\ FieldOk(DescrTable, Items[n], Items[n].description)
            /\ FieldOk(EntityGet(entity_data, "entPhysicalSerialNum"), Items[n],
                       Items[n].serial_number)
            /\ FieldOk(EntityGet(entity_data, "entPhysicalModelName"), Items[n],
                       Items[n].model)

C8_Witness ==
    /\ Succeeded
    /\ Len(Items) = 2
    /\ Items[1].name = "Name"
    /\ Items[2].name = "N/A"
    /\ Items[1].serial_number = "N/A"
    /\ Items[2].model = "Model"

\* C9: when every index of the descriptor table parses as an integer, the
\* scan succeeds exactly when the sysName fetch returned a str, and a str
\* never gives the "Unable to connect" failure.
C9_SuccessIffNamePresent ==
    (Done /\ \A i \in DescrIndices : ParseInt(i) # None) =>
        /\ (outcome.result # None) <=> (sys_name # None)
        /\ sys_name # None =>
              outcome.error # Some([msg |-> "Unable to connect via SNMP", arg |-> <<>>])

\* C10: the indices of the items are the indices of entPhysicalDescr whose
\* class code (entPhysicalClass, "2" when missing) maps to a kept class; an
\* index of another table alone gives no item; the class of an item is the
\* name of its code.
ExpectedClass(i) ==
    LET n == ParseInt(DictGet(ClassTable, i, <<"2">>))
    IN  IF n # None /\ n[1] \in 1..12 THEN PHYSICAL_CLASS[n[1]] ELSE "unknown"

C10_DescrAuthoritative ==
    Succeeded =>
        /\ {Items[n].index : n \in 1..Len(Items)}
              = {i \in DescrIndices : ExpectedClass(i) \in RetainedClasses}
        /\ \A n \in 1..Len(Items) : Items[n].class = ExpectedClass(Items[n].index)

C10_Witness ==
    /\ Succeeded
    /\ Len(Items) = 1
    /\ Items[1].class = "powerSupply"
    /\ Len(DescrTable) = 2
    /\ \E n \in 1..Len(ClassTable) : ClassTable[n][1] \notin DescrIndices

(***************************************************************************)
(* Properties of the stored inventory and its view.                        *)
(***************************************************************************)
Viewed == page # None /\ page[1].inventory # None

\* the stored list the page was rendered from
ViewedItems == json_loads(inventories[page[1].inventory[1]].inventory_data[1])

OfClass(items, c) == SelectSeq(items, LAMBDA it : it.class = c)

SectionsOf(c) ==
    {n \in 1..Len(page[1].sections) : page[1].sections[n].class_name = c}

\* C5: a displayed class other than port shows all its N items, for every
\* N; port shows its first 10 items and "N - 10 more" when N > 10, and all
\* of them and no count when N <= 10.
C5_TruncationLaw ==
    Viewed =>
        \A k \in 1..Len(DisplayOrder) :
            LET c     == DisplayOrder[k]
                group == OfClass(ViewedItems, c)
            IN  group # <<>> =>
                   /\ Cardinality(SectionsOf(c)) = 1
                   /\ \A n \in SectionsOf(c) :
                         LET s == page[1].sections[n]
                         IN  IF c = "port" /\ Len(group) > 10
                             THEN /\ s.shown = SubSeq(group, 1, 10)
                                  /\ s.more = Some(Len(group) - 10)
                             ELSE /\ s.shown = group
                                  /\ s.more = None

\* C6: every stored item list is the complete list scan_device returned
\* for it, before and after any number of views.
C6_StoredIsComplete ==
    /\ Len(inventories) = Len(returned)
    /\ \A k \in 1..Len(inventories) :
          from_json_filter(inventories[k].inventory_data) = returned[k]

C6_Witness ==
    /\ Viewed
    /\ Len(returned[page[1].inventory[1]]) = BigSwitch
    /\ ViewedItems = returned[page[1].inventory[1]]
    /\ \E n \in SectionsOf("port") :
          /\ Len(page[1].sections[n].shown) = 10
          /\ page[1].sections[n].more = Some(1)

(***************************************************************************)
(* Properties of snmp_walk.                                                *)
(***************************************************************************)
\* the exchanges received before the first failing one: an error ends the
\* walk where it stands, the iterator raising ends it behind the last one
Received ==
    IF FirstError(answer.yields) = 0 THEN answer.yields
    ELSE SubSeq(answer.yields, 1, FirstError(answer.yields) - 1)

ReceivedIndices == {RowIndex(Received[n].varBinds[1][1]) : n \in 1..Len(Received)}

\* the value of the last row received for an index
LastValue(i) ==
    LET last == CHOOSE n \in 1..Len(Received) :
                   /\ RowIndex(Received[n].varBinds[1][1]) = i
                   /\ \A m \in (n + 1)..Len(Received) :
                         RowIndex(Received[m].varBinds[1][1]) # i
    IN  Received[last].varBinds[1][2]

\* C11: snmp_walk returns a dict, never raises, and the dict maps exactly
\* the indices of the rows received before the first failing exchange
\* (error indication, error status or the transport raising) to their
\* values; it is empty when the first exchange fails.
C11_RowsBeforeFailure ==
    walked # None =>
        /\ {walked[1][n][1] : n \in 1..Len(walked[1])} = ReceivedIndices
        /\ \A n \in 1..Len(walked[1]) : walked[1][n][2] = LastValue(walked[1][n][1])

(***************************************************************************)
(* Properties of the scan route.                                           *)
(***************************************************************************)
\* the step in which scan_device_route commits a failed scan
FailedScanSaved == pc = "done" /\ caller # None /\ outcome.result = None /\ pc' = "idle"

HasInventory(d) == \E k \in 1..Len(inventories) : inventories[k].device_id = d

\* the page shows the row stored by the last successful scan of its device
ShowsLastStored ==
    page # None =>
        LET d == page[1].device
        IN  IF HasInventory(d)
            THEN /\ page[1].inventory # None
                 /\ LET k == page[1].inventory[1]
                    IN  /\ inventories[k].device_id = d
                        /\ \A j \in (k + 1)..Len(inventories) :
                              inventories[j].device_id # d
            ELSE page[1].inventory = None

SuccessHasInventory ==
    \A d \in DOMAIN devices : devices[d].status.text = "Success" => HasInventory(d)

\* C12: the commit of a failed scan sets the status of its device to
\* 'Failed: ' and the reason, and changes nothing else: no Inventory row is
\* added or changed and every last_scanned stays; so in every state a
\* device with status Success has a stored inventory and the inventory view
\* shows the snapshot of the last successful scan of the device.
C12_FailedScanKeepsInventory ==
    [][/\ FailedScanSaved =>
            /\ inventories' = inventories
            /\ DOMAIN devices' = DOMAIN devices
            /\ \A d \in DOMAIN devices :
                  /\ devices'[d].last_scanned = devices[d].last_scanned
                  /\ d # caller[1] => devices'[d] = devices[d]
            /\ devices'[caller[1]].status = Status("Failed: ", outcome.error)
            /\ outcome.error # None
       /\ SuccessHasInventory'
       /\ ShowsLastStored']_vars

C12_Witness ==
    /\ page # None
    /\ page[1].inventory # None
    /\ devices[page[1].device].status.text = "Failed: "
    /\ devices[page[1].device].last_scanned # None
    /\ HasInventory(page[1].device)
    /\ inventories[page[1].inventory[1]].scanned_at = devices[page[1].device].last_scanned[1]
====
